---- MODULE Spec2Model ----
(***************************************************************************)
(* Model of the loan-application fraud-report repository:                  *)
(*   agents/narrative_agent.py  NarrativeAgent.__init__ / generate_report  *)
(*   mcp.py                     verify_paystub / verify_id                 *)
(*                                                                         *)
(* A Python str is a sequence of one-character strings.  A Python value is *)
(* a record [t |-> tag, v |-> payload]; the tag fixes the payload's type.  *)
(***************************************************************************)
EXTENDS Integers, Sequences, FiniteSets, TLC

VARIABLES
    environ,            \* os.environ.get("GEMINI_API_KEY"): NoValue or a str
    dotenv,             \* the value the .env file gives that key, or NoValue
    agent,              \* the NarrativeAgent instance the caller holds, or NoAgent
    clients,            \* number of OpenAI(...) clients created so far
    requests,           \* chat.completions.create requests issued so far
    op,                 \* the operation that ran last
    raised,             \* the exception the last operation raised, or NoError
    application,        \* generate_report: its argument
    app_payload,        \* generate_report: the payload it built, or NoValue
    user_instructions,  \* generate_report: the user message it built, or NoValue
    response,           \* generate_report: what the remote call gave, or NoResponse
    init_args,          \* __init__: the arguments of the last construction
    report,             \* generate_report: the value returned, or NoValue
    tool_input,         \* the argument of the last tool invocation
    tool_result         \* the response of the last tool invocation

vars == <<environ, dotenv, agent, clients, requests, op, raised, application,
          app_payload, user_instructions, response, report, init_args, tool_input,
          tool_result>>

-----------------------------------------------------------------------------
(* Bounds of the model *)

\* pieces concatenated to form a string argument of generate_report
MaxPieces == 3
\* pieces concatenated to form the content of a remote response
MaxParts == 3
\* requests one behaviour of the agent may issue
MaxCalls == 2
\* agents one behaviour may construct
MaxAgents == 2

-----------------------------------------------------------------------------
(* Python values *)

NoValue == [t |-> "none", v |-> <<>>]
PyStr(s) == [t |-> "str", v |-> s]
PyInt(n) == [t |-> "int", v |-> n]
PyTrue == [t |-> "bool", v |-> TRUE]
PyFalse == [t |-> "bool", v |-> FALSE]
PyList(items) == [t |-> "list", v |-> items]
\* a dict is its items in insertion order, keys distinct
PyDict(items) == [t |-> "dict", v |-> items]
PyTuple(items) == [t |-> "tuple", v |-> items]
\* an object json cannot serialize (a date, say); v is what str() gives for it
PyObject(s) == [t |-> "object", v |-> s]
Item(k, x) == [key |-> k, val |-> x]

NoError == "none"

RECURSIVE Concat(_)
\* "".join(parts)
Concat(parts) ==
    IF parts = <<>> THEN <<>> ELSE Head(parts) \o Concat(Tail(parts))

\* sub in s, for two str
IsSubstring(sub, s) ==
    \E i \in 0..(Len(s) - Len(sub)) : SubSeq(s, i + 1, i + Len(sub)) = sub

-----------------------------------------------------------------------------
(* json.loads, as the standard library's decoder reads a str *)

\* json.decoder.WHITESPACE
JsonWhitespace == {" ", "\t", "\n", "\r"}
\* characters a strict JSON string may not hold unescaped
ControlChars == {"\t", "\n", "\r", "\f"}
Digits == <<"0", "1", "2", "3", "4", "5", "6", "7", "8", "9">>
DigitChars == {Digits[i] : i \in 1..10}
DigitValue(c) == (CHOOSE i \in 1..10 : Digits[i] = c) - 1

\* json.decoder.BACKSLASH
EscapedChars == {"\"", "\\", "/", "f", "n", "r", "t"}
Unescape(c) ==
    CASE c = "f" -> "\f"
      [] c = "n" -> "\n"
      [] c = "r" -> "\r"
      [] c = "t" -> "\t"
      [] OTHER -> c

Parsed(x, p) == [ok |-> TRUE, val |-> x, pos |-> p]
\* json.JSONDecodeError
DecodeError == [ok |-> FALSE, val |-> NoValue, pos |-> 0]

RECURSIVE SkipWhitespace(_, _)
SkipWhitespace(s, i) ==
    IF i <= Len(s) /\ s[i] \in JsonWhitespace THEN SkipWhitespace(s, i + 1) ELSE i

StartsWith(s, i, lit) ==
    i + Len(lit) - 1 <= Len(s) /\ SubSeq(s, i, i + Len(lit) - 1) = lit

RECURSIVE ScanString(_, _, _)
\* py_scanstring, strict: i is the position after the opening quote
ScanString(s, i, acc) ==
    IF i > Len(s) THEN DecodeError
    ELSE IF s[i] = "\"" THEN Parsed(PyStr(acc), i + 1)
    ELSE IF s[i] = "\\" THEN
        IF i + 1 <= Len(s) /\ s[i + 1] \in EscapedChars
        THEN ScanString(s, i + 2, Append(acc, Unescape(s[i + 1])))
        ELSE DecodeError
    ELSE IF s[i] \in ControlChars THEN DecodeError
    ELSE ScanString(s, i + 1, Append(acc, s[i]))

RECURSIVE ScanDigits(_, _, _)
\* \d* from position i, with the value read so far
ScanDigits(s, i, n) ==
    IF i <= Len(s) /\ s[i] \in DigitChars
    THEN ScanDigits(s, i + 1, 10 * n + DigitValue(s[i]))
    ELSE [val |-> n, pos |-> i]

\* NUMBER_RE, integer part: -?(0|[1-9]\d*)
ScanNumber(s, i) ==
    LET neg == i <= Len(s) /\ s[i] = "-"
        j == IF neg THEN i + 1 ELSE i
    IN  IF j > Len(s) \/ s[j] \notin DigitChars THEN DecodeError
        ELSE IF s[j] = "0" THEN Parsed(PyInt(0), j + 1)
        ELSE LET d == ScanDigits(s, j, 0)
             IN  Parsed(PyInt(IF neg THEN 0 - d.val ELSE d.val), d.pos)

RECURSIVE DictSet(_, _, _)
\* d[k] = x on a dict's items: a key already present keeps its place
DictSet(items, k, x) ==
    IF items = <<>> THEN <<Item(k, x)>>
    ELSE IF Head(items).key = k THEN <<Item(k, x)>> \o Tail(items)
    ELSE <<Head(items)>> \o DictSet(Tail(items), k, x)

RECURSIVE ScanOnce(_, _), ScanArray(_, _, _), ScanObject(_, _, _)
\* json.scanner.py_make_scanner._scan_once.  Fractions, exponents and the
\* literals NaN and Infinity need characters no input of this model holds.
ScanOnce(s, i) ==
    IF i > Len(s) THEN DecodeError
    ELSE IF s[i] = "\"" THEN ScanString(s, i + 1, <<>>)
    ELSE IF s[i] = "{" THEN
        LET j == SkipWhitespace(s, i + 1)
        IN  IF j > Len(s) THEN DecodeError
            ELSE IF s[j] = "}" THEN Parsed(PyDict(<<>>), j + 1)
            ELSE IF s[j] = "\"" THEN ScanObject(s, j + 1, <<>>)
            ELSE DecodeError
    ELSE IF s[i] = "[" THEN
        LET j == SkipWhitespace(s, i + 1)
        IN  IF j > Len(s) THEN DecodeError
            ELSE IF s[j] = "]" THEN Parsed(PyList(<<>>), j + 1)
            ELSE ScanArray(s, j, <<>>)
    ELSE IF StartsWith(s, i, <<"n", "u", "l", "l">>) THEN Parsed(NoValue, i + 4)
    ELSE IF StartsWith(s, i, <<"t", "r", "u", "e">>) THEN Parsed(PyTrue, i + 4)
    ELSE IF StartsWith(s, i, <<"f", "a", "l", "s", "e">>) THEN Parsed(PyFalse, i + 5)
    ELSE ScanNumber(s, i)

\* json.decoder.JSONArray: i is the start of the next element
ScanArray(s, i, acc) ==
    LET r == ScanOnce(s, i)
    IN  IF ~r.ok THEN DecodeError
        ELSE LET j == SkipWhitespace(s, r.pos)
                 got == Append(acc, r.val)
             IN  IF j > Len(s) THEN DecodeError
                 ELSE IF s[j] = "]" THEN Parsed(PyList(got), j + 1)
                 ELSE IF s[j] = "," THEN ScanArray(s, SkipWhitespace(s, j + 1), got)
                 ELSE DecodeError

\* json.decoder.JSONObject: i is the position after a key's opening quote
ScanObject(s, i, acc) ==
    LET k == ScanString(s, i, <<>>)
    IN  IF ~k.ok THEN DecodeError
        ELSE LET c == SkipWhitespace(s, k.pos)
             IN  IF c > Len(s) \/ s[c] # ":" THEN DecodeError
                 ELSE LET r == ScanOnce(s, SkipWhitespace(s, c + 1))
                      IN  IF ~r.ok THEN DecodeError
                          ELSE LET j == SkipWhitespace(s, r.pos)
                                   got == DictSet(acc, k.val, r.val)
                                   n == SkipWhitespace(s, j + 1)
                               IN  IF j > Len(s) THEN DecodeError
                                   ELSE IF s[j] = "}" THEN Parsed(PyDict(got), j + 1)
                                   ELSE IF s[j] # "," THEN DecodeError
                                   ELSE IF n > Len(s) \/ s[n] # "\"" THEN DecodeError
                                   ELSE ScanObject(s, n + 1, got)

\* json.loads(s): one value, whitespace around it, nothing else
JsonLoads(s) ==
    LET r == ScanOnce(s, SkipWhitespace(s, 1))
    IN  IF ~r.ok THEN DecodeError
        ELSE IF SkipWhitespace(s, r.pos) # Len(s) + 1 THEN DecodeError
        ELSE r

-----------------------------------------------------------------------------
(* json.dumps(o, default=str), as the standard library's encoder writes it *)

\* faulty variant: the backslash is left out of the escape table
EscapeChar_BackslashKept(c) ==
    CASE c = "\"" -> <<"\\", "\"">>
      [] c = "\n" -> <<"\\", "n">>
      [] c = "\r" -> <<"\\", "r">>
      [] c = "\t" -> <<"\\", "t">>
      [] c = "\f" -> <<"\\", "f">>
      [] OTHER -> <<c>>

\* json.encoder.ESCAPE_DCT, for py_encode_basestring_ascii
EscapeChar(c) ==
    CASE c = "\"" -> <<"\\", "\"">>
      [] c = "\\" -> <<"\\", "\\">>
      [] c = "\n" -> <<"\\", "n">>
      [] c = "\r" -> <<"\\", "r">>
      [] c = "\t" -> <<"\\", "t">>
      [] c = "\f" -> <<"\\", "f">>
      [] OTHER -> <<c>>

\* py_encode_basestring_ascii(s): the quoted, escaped JSON string
EncodeString(s) ==
    <<"\"">> \o Concat([i \in 1..Len(s) |-> EscapeChar(s[i])]) \o <<"\"">>

RECURSIVE DigitsOf(_)
DigitsOf(n) ==
    IF n < 10 THEN <<Digits[n + 1]>> ELSE DigitsOf(n \div 10) \o <<Digits[(n % 10) + 1]>>

\* int.__repr__
IntRepr(n) == IF n < 0 THEN <<"-">> \o DigitsOf(0 - n) ELSE DigitsOf(n)

Encoded(s) == [ok |-> TRUE, out |-> s, err |-> NoError]
EncodeFailed(e) == [ok |-> FALSE, out |-> <<>>, err |-> e]

RECURSIVE JoinItems(_)
\* the item separator ", " between the encoded items
JoinItems(parts) ==
    IF parts = <<>> THEN <<>>
    ELSE IF Len(parts) = 1 THEN parts[1]
    ELSE parts[1] \o <<",", " ">> \o JoinItems(Tail(parts))

\* _iterencode_dict: the JSON text of a dict key, or the TypeError it raises
EncodeKey(k) ==
    CASE k.t = "str" -> Encoded(EncodeString(k.v))
      [] k.t = "int" -> Encoded(<<"\"">> \o IntRepr(k.v) \o <<"\"">>)
      [] k.t = "bool" ->
            Encoded(IF k.v THEN <<"\"", "t", "r", "u", "e", "\"">>
                    ELSE <<"\"", "f", "a", "l", "s", "e", "\"">>)
      [] k.t = "none" -> Encoded(<<"\"", "n", "u", "l", "l", "\"">>)
      [] OTHER -> EncodeFailed("TypeError")

RECURSIVE IterEncode(_)
\* json.encoder._make_iterencode._iterencode, with default=str
IterEncode(o) ==
    CASE o.t = "str" -> Encoded(EncodeString(o.v))
      [] o.t = "none" -> Encoded(<<"n", "u", "l", "l">>)
      [] o.t = "bool" ->
            Encoded(IF o.v THEN <<"t", "r", "u", "e">> ELSE <<"f", "a", "l", "s", "e">>)
      [] o.t = "int" -> Encoded(IntRepr(o.v))
      [] o.t \in {"list", "tuple"} ->
            LET parts == [i \in 1..Len(o.v) |-> IterEncode(o.v[i])]
            IN  IF \E i \in 1..Len(o.v) : ~parts[i].ok
                THEN EncodeFailed("TypeError")
                ELSE Encoded(<<"[">>
                             \o JoinItems([i \in 1..Len(o.v) |-> parts[i].out])
                             \o <<"]">>)
      [] o.t = "dict" ->
            LET keys == [i \in 1..Len(o.v) |-> EncodeKey(o.v[i].key)]
                vals == [i \in 1..Len(o.v) |-> IterEncode(o.v[i].val)]
            IN  IF \E i \in 1..Len(o.v) : ~keys[i].ok \/ ~vals[i].ok
                THEN EncodeFailed("TypeError")
                ELSE Encoded(<<"{">>
                             \o JoinItems([i \in 1..Len(o.v) |->
                                    keys[i].out \o <<":", " ">> \o vals[i].out])
                             \o <<"}">>)
      \* default(o) = str(o), and the str is encoded in o's place
      [] OTHER -> Encoded(EncodeString(o.v))

RECURSIVE HoldsObject(_)
\* o holds a value json cannot serialize
HoldsObject(o) ==
    CASE o.t = "object" -> TRUE
      [] o.t \in {"list", "tuple"} -> \E i \in 1..Len(o.v) : HoldsObject(o.v[i])
      [] o.t = "dict" -> \E i \in 1..Len(o.v) : HoldsObject(o.v[i].val)
      [] OTHER -> FALSE

\* faulty variant: json.dumps(o), the default=str left out
JsonDumps_NoDefault(o) ==
    IF HoldsObject(o) THEN EncodeFailed("TypeError") ELSE IterEncode(o)

\* json.dumps(o, default=str)
JsonDumps(o) == IterEncode(o)

-----------------------------------------------------------------------------
(* NarrativeAgent.generate_report: the pure steps *)

\* the key of the wrapper object, "raw_application"
RAW_APPLICATION ==
    <<"r", "a", "w", "_", "a", "p", "p", "l", "i", "c", "a", "t", "i", "o", "n">>

\* the head of user_instructions, up to and including "DATA: "
DATA_PREFIX ==
    <<"A", "p", "p", "l", "i", "c", "a", "t", "i", "o", "n", " ", "d", "a", "t", "a",
      " ", "(", "J", "S", "O", "N", ")", ".", " ", "U", "s", "e", " ", "i", "t", " ",
      "t", "o", " ", "p", "r", "o", "d", "u", "c", "e", " ", "t", "h", "e", " ", "r",
      "e", "p", "o", "r", "t", ".", "\n", "\n", "D", "A", "T", "A", ":", " ">>

\* the system message: a fixed literal, kept as one symbol
system_prompt == <<"You are a senior consumer lending fraud analyst. ...">>

IDENTITY_FRAUD_RISK ==
    <<"I", "d", "e", "n", "t", "i", "t", "y", " ", "F", "r", "a", "u", "d", " ", "R",
      "i", "s", "k">>
PAYSTUB_FRAUD_RISK ==
    <<"P", "a", "y", "s", "t", "u", "b", " ", "F", "r", "a", "u", "d", " ", "R", "i",
      "s", "k">>
OVERALL_APPLICATION_RISK ==
    <<"O", "v", "e", "r", "a", "l", "l", " ", "A", "p", "p", "l", "i", "c", "a", "t",
      "i", "o", "n", " ", "R", "i", "s", "k">>
\* the list the any(...) of generate_report runs over
SectionLabels == <<IDENTITY_FRAUD_RISK, PAYSTUB_FRAUD_RISK, OVERALL_APPLICATION_RISK>>

SEE_ANALYSIS_ABOVE ==
    <<"(", "s", "e", "e", " ", "a", "n", "a", "l", "y", "s", "i", "s", " ", "a", "b",
      "o", "v", "e", ")">>

\* faulty variant: a str that parses is serialized again from its parsed value
BuildPayload_Reserialized(app) ==
    IF app.t = "str" THEN
        IF JsonLoads(app.v).ok
        THEN JsonDumps(JsonLoads(app.v).val)
        ELSE JsonDumps(PyDict(<<Item(PyStr(RAW_APPLICATION), app)>>))
    ELSE JsonDumps(app)

\* lines 76-83: the payload, or the exception json.dumps raises
BuildPayload(app) ==
    IF app.t = "str" THEN
        IF JsonLoads(app.v).ok
        THEN Encoded(app.v)
        ELSE JsonDumps(PyDict(<<Item(PyStr(RAW_APPLICATION), app)>>))
    ELSE JsonDumps(app)

\* lines 96-99
UserInstructions(payload) == DATA_PREFIX \o payload

\* str.isspace, on the characters of the model
PyWhitespace == {" ", "\t", "\n", "\r", "\f"}

RECURSIVE LStrip(_)
LStrip(s) == IF s # <<>> /\ Head(s) \in PyWhitespace THEN LStrip(Tail(s)) ELSE s
RECURSIVE RStrip(_)
RStrip(s) ==
    IF s # <<>> /\ s[Len(s)] \in PyWhitespace THEN RStrip(SubSeq(s, 1, Len(s) - 1)) ELSE s
\* str.strip()
Strip(s) == RStrip(LStrip(s))

\* faulty variant: lstrip() in place of strip()
TrimmedContent_LeftOnly(c) == LStrip(IF c.t = "str" THEN c.v ELSE <<>>)

\* line 111: (message.content or "").strip()
TrimmedContent(c) == Strip(IF c.t = "str" THEN c.v ELSE <<>>)

\* line 114: any(h in content for h in [...])
HasAnyLabel(text) == \E i \in 1..Len(SectionLabels) : IsSubstring(SectionLabels[i], text)

\* lines 115-119: the three-section wrapper
WrapSections(text) ==
    IDENTITY_FRAUD_RISK \o <<":", "\n">> \o text \o <<"\n", "\n">>
    \o PAYSTUB_FRAUD_RISK \o <<":", "\n">> \o SEE_ANALYSIS_ABOVE \o <<"\n", "\n">>
    \o OVERALL_APPLICATION_RISK \o <<":", "\n">> \o SEE_ANALYSIS_ABOVE \o <<"\n">>

\* faulty variant: all(...) in place of any(...)
EnsureSections_AllRequired(text) ==
    IF ~(\A i \in 1..Len(SectionLabels) : IsSubstring(SectionLabels[i], text))
    THEN WrapSections(text)
    ELSE text

\* lines 113-121
EnsureSections(text) == IF ~HasAnyLabel(text) THEN WrapSections(text) ELSE text

\* lines 111-121: the report for a response whose message.content is c
ReportOf(c) == EnsureSections(TrimmedContent(c))

-----------------------------------------------------------------------------
(* Inputs *)

RECURSIVE Joined(_, _)
\* the strings made of at most n pieces
Joined(pieces, n) ==
    IF n = 0 THEN {<<>>}
    ELSE LET shorter == Joined(pieces, n - 1)
         IN  shorter \cup {p \o t : p \in pieces, t \in shorter}

\* pieces of a string argument: JSON punctuation, text, whitespace
ApplicationPieces ==
    { <<"{", "\"", "a", "\"", ":">>, <<"1">>, <<"}">>, <<"\"">>, <<"\\">>, <<"[">>,
      <<"]">>, <<",">>, <<" ">>, <<"a">>, <<"\n">>, <<"n", "u", "l", "l">> }

StringApplications == {PyStr(t) : t \in Joined(ApplicationPieces, MaxPieces)}

\* values inside a mapping argument
Leaves ==
    { PyStr(<<>>), PyStr(<<"a", "\"", "\\">>), PyInt(0 - 12), NoValue, PyTrue,
      PyObject(<<"2", "0", "2", "4", "-", "0", "1">>) }
DictKeys == {PyStr(<<"a">>), PyStr(<<"1">>), PyInt(1), PyTuple(<<PyInt(1)>>)}
Nested ==
    Leaves \cup {PyList(<<>>), PyDict(<<>>)}
           \cup {PyList(<<x, y>>) : x \in {PyInt(3)}, y \in Leaves}
           \cup {PyDict(<<Item(k, x)>>) : k \in DictKeys, x \in Leaves}
MappingApplications ==
    {PyDict(<<>>)}
    \cup {PyDict(<<Item(k, x)>>) : k \in DictKeys, x \in Nested}
    \cup {PyDict(<<Item(k[1], x), Item(k[2], y)>>) :
            k \in {kk \in DictKeys \X DictKeys : kk[1] # kk[2]}, x \in Nested, y \in Leaves}

\* pieces of a response's content: the labels, parts of them, text, whitespace
ContentParts ==
    { IDENTITY_FRAUD_RISK, PAYSTUB_FRAUD_RISK, OVERALL_APPLICATION_RISK,
      <<"I", "d", "e", "n", "t", "i", "t", "y", " ">>, <<"F", "r", "a", "u", "d", " ", "R", "i", "s", "k">>,
      <<"o", "k">>, <<" ">>, <<"\n">> }

\* message.content: None or a str
Contents == {NoValue} \cup {PyStr(t) : t \in Joined(ContentParts, MaxParts)}

-----------------------------------------------------------------------------
(* State *)

\* what chat.completions.create gave: an exception, a completion without
\* choices, or a completion whose first choice holds message.content c
NoResponse == [kind |-> "none", err |-> NoError, content |-> NoValue]
Failure(e) == [kind |-> "error", err |-> e, content |-> NoValue]
NoChoices == [kind |-> "empty", err |-> NoError, content |-> NoValue]
Completion(c) == [kind |-> "ok", err |-> NoError, content |-> c]

NoArgs == [model |-> "", temperature |-> 0]

NoAgent == <<>>
Idle ==
    /\ agent = NoAgent
    /\ clients = 0
    /\ requests = <<>>
    /\ raised = NoError
    /\ app_payload = NoValue
    /\ user_instructions = NoValue
    /\ report = NoValue
    /\ tool_result = NoValue
    /\ tool_input = NoValue
    /\ init_args = NoArgs

-----------------------------------------------------------------------------
(* The payload builder on its own: generate_report, lines 76-99 *)

InitBuild ==
    /\ Idle
    /\ op = "input"
    /\ application \in StringApplications \cup MappingApplications
    /\ response = NoResponse
    /\ environ = NoValue
    /\ dotenv = NoValue

Build ==
    /\ op = "input"
    /\ LET p == BuildPayload(application)
       IN  /\ raised' = p.err
           /\ app_payload' = IF p.ok THEN PyStr(p.out) ELSE NoValue
           /\ user_instructions' = IF p.ok THEN PyStr(UserInstructions(p.out)) ELSE NoValue
    /\ op' = "build"
    /\ UNCHANGED <<environ, dotenv, agent, clients, requests, application, response,
                   report, init_args, tool_result, tool_input>>

SpecBuild == InitBuild /\ [][Build]_vars

-----------------------------------------------------------------------------
(* The response post-processing on its own: generate_report, lines 111-121 *)

InitReport ==
    /\ Idle
    /\ op = "input"
    /\ application = NoValue
    /\ response \in {Completion(c) : c \in Contents}
    /\ environ = NoValue
    /\ dotenv = NoValue

PostProcess ==
    /\ op = "input"
    /\ report' = PyStr(ReportOf(response.content))
    /\ op' = "report"
    /\ UNCHANGED <<environ, dotenv, agent, clients, requests, raised, application,
                   app_payload, user_instructions, response, init_args, tool_result,
                   tool_input>>

SpecReport == InitReport /\ [][PostProcess]_vars

-----------------------------------------------------------------------------
(* The agent: NarrativeAgent.__init__ and generate_report *)

\* GEMINI_API_KEY in the process environment and in the .env file:
\* absent, empty, or a key
EnvValues == {NoValue, PyStr(<<>>), PyStr(<<"k", "e", "y", "-", "e", "n", "v">>)}
DotenvValues == {NoValue, PyStr(<<>>), PyStr(<<"k", "e", "y", "-", "f", "i", "l", "e">>)}

\* __init__'s arguments; temperature in tenths, the defaults first
InitArgs ==
    { [model |-> "gemini-1.5-turbo", temperature |-> 2],
      [model |-> "gemini-1.5-pro", temperature |-> 7] }

\* arguments of generate_report: valid and malformed JSON text, mappings
\* json.dumps accepts, and one it rejects
AgentApplications ==
    { PyStr(<<"{", "\"", "a", "\"", ":", "1", "}">>),
      PyStr(<<"a", "\"">>),
      PyDict(<<Item(PyStr(<<"a">>), PyObject(<<"2", "0", "2", "4">>))>>),
      PyDict(<<Item(PyStr(<<"a">>), PyDict(<<Item(PyTuple(<<PyInt(1)>>), NoValue)>>))>>) }

\* what the remote endpoint may answer
AgentResponses ==
    { Failure("APIConnectionError"), Failure("RateLimitError"), NoChoices,
      Completion(NoValue),
      Completion(PyStr(<<" ", "o", "k">>)),
      Completion(PyStr(PAYSTUB_FRAUD_RISK \o <<"\n">>)) }

\* _load_env_once: load_dotenv() sets a variable the .env file names unless
\* the process environment already has it
LoadDotenv(env, file) == IF env = NoValue /\ file # NoValue THEN file ELSE env

\* faulty variant: api_key is None in place of not api_key
MissingKey_NoneOnly(api_key) == api_key = NoValue

\* line 68: not api_key
MissingKey(api_key) == api_key = NoValue \/ api_key.v = <<>>

\* lines 64-65, 72: the instance a successful construction gives
NewAgent(args, api_key) ==
    [model |-> args.model, temperature |-> args.temperature,
     client |-> [api_key |-> api_key.v]]

\* faulty variant: the default model is sent, not the agent's
NewRequest_DefaultModel(self, user) ==
    [api_key |-> self.client.api_key,
     model |-> "gemini-1.5-turbo",
     temperature |-> self.temperature,
     messages |-> << [role |-> "system", content |-> system_prompt],
                     [role |-> "user", content |-> user] >>]

\* lines 102-109: the request generate_report sends
NewRequest(self, user) ==
    [api_key |-> self.client.api_key,
     model |-> self.model,
     temperature |-> self.temperature,
     messages |-> << [role |-> "system", content |-> system_prompt],
                     [role |-> "user", content |-> user] >>]

\* faulty variant: a failed request is sent once more
RequestsAfter_Retried(sent, self, user, resp) ==
    IF resp.kind = "error"
    THEN sent \o <<NewRequest(self, user), NewRequest(self, user)>>
    ELSE Append(sent, NewRequest(self, user))

\* lines 102-109: the requests issued once the call has been made
RequestsAfter(sent, self, user, resp) == Append(sent, NewRequest(self, user))

\* lines 102, 111: the exception the rest of the call raises, if any
RaisedBy(resp) ==
    CASE resp.kind = "error" -> resp.err
      [] resp.kind = "empty" -> "IndexError"
      [] OTHER -> NoError

Init ==
    /\ Idle
    /\ op = "start"
    /\ application = NoValue
    /\ response = NoResponse
    /\ environ \in EnvValues
    /\ dotenv \in DotenvValues

\* NarrativeAgent(model, temperature)
Construct(args) ==
    /\ clients < MaxAgents
    /\ op' = "__init__"
    /\ init_args' = args
    /\ environ' = LoadDotenv(environ, dotenv)
    /\ IF MissingKey(environ')
       THEN /\ raised' = "RuntimeError"
            /\ UNCHANGED <<agent, clients>>
       ELSE /\ raised' = NoError
            /\ agent' = <<NewAgent(args, environ')>>
            /\ clients' = clients + 1
    /\ UNCHANGED <<dotenv, requests, application, app_payload, user_instructions,
                   response, report, tool_input, tool_result>>

\* agent.generate_report(app), the remote endpoint answering resp
GenerateReport(app, resp) ==
    /\ agent # NoAgent
    /\ Len(requests) < MaxCalls
    /\ op' = "generate_report"
    /\ application' = app
    /\ LET p == BuildPayload(app)
       IN  IF ~p.ok
           THEN /\ raised' = p.err
                /\ app_payload' = NoValue
                /\ user_instructions' = NoValue
                /\ response' = NoResponse
                /\ report' = NoValue
                /\ UNCHANGED requests
           ELSE /\ app_payload' = PyStr(p.out)
                /\ user_instructions' = PyStr(UserInstructions(p.out))
                /\ requests' = RequestsAfter(requests, agent[1], UserInstructions(p.out), resp)
                /\ response' = resp
                /\ raised' = RaisedBy(resp)
                /\ report' = IF RaisedBy(resp) = NoError
                             THEN PyStr(ReportOf(resp.content))
                             ELSE NoValue
    /\ UNCHANGED <<environ, dotenv, agent, clients, init_args, tool_input, tool_result>>

Next ==
    \/ \E args \in InitArgs : Construct(args)
    \/ \E app \in AgentApplications, resp \in AgentResponses : GenerateReport(app, resp)

Spec == Init /\ [][Next]_vars

-----------------------------------------------------------------------------
(* The tool server: mcp.py *)

STATUS == PyStr(<<"s", "t", "a", "t", "u", "s">>)
ERROR == PyStr(<<"e", "r", "r", "o", "r">>)

\* the objects a tool may be invoked with
ToolInputs == Nested \cup {PyList(<<x>>) : x \in Nested}

\* the success messages: fixed literals, each kept as one symbol
PAYSTUB_VERIFIED == PyStr(<<"Paystub verified successfully">>)
ID_VERIFIED == PyStr(<<"ID verified successfully">>)

Returned(x) == [exc |-> NoError, value |-> x]
Raising(e) == [exc |-> e, value |-> NoValue]

\* faulty variant: the body rejects what is no mapping
VerifyPaystubBody_Validating(paystub) ==
    IF paystub.t = "dict"
    THEN Returned(PyDict(<<Item(STATUS, PAYSTUB_VERIFIED)>>))
    ELSE Raising("ValueError")

\* lines 19-20: the try body of verify_paystub
VerifyPaystubBody(paystub) ==
    Returned(PyDict(<<Item(STATUS, PAYSTUB_VERIFIED)>>))

\* lines 29-30: the try body of verify_id
VerifyIdBody(id) ==
    Returned(PyDict(<<Item(STATUS, ID_VERIFIED)>>))

\* lines 18-24: try: body / except Exception: the error-shaped response
verify_paystub(paystub) ==
    LET r == VerifyPaystubBody(paystub)
    IN  IF r.exc = NoError THEN r
        ELSE Returned(PyDict(<<Item(ERROR, PyStr(<<"Exception in verify_paystub: ", r.exc>>))>>))

\* lines 28-33
verify_id(id) ==
    LET r == VerifyIdBody(id)
    IN  IF r.exc = NoError THEN r
        ELSE Returned(PyDict(<<Item(ERROR, PyStr(<<"Exception in verify_id api call: ", r.exc>>))>>))

InitTools ==
    /\ Idle
    /\ op = "start"
    /\ application = NoValue
    /\ response = NoResponse
    /\ environ = NoValue
    /\ dotenv = NoValue

InvokeVerifyPaystub(o) ==
    /\ op' = "verify_paystub"
    /\ tool_input' = o
    /\ tool_result' = verify_paystub(o).value
    /\ raised' = verify_paystub(o).exc
    /\ UNCHANGED <<environ, dotenv, agent, clients, requests, application, app_payload,
                   user_instructions, response, report, init_args>>

InvokeVerifyId(o) ==
    /\ op' = "verify_id"
    /\ tool_input' = o
    /\ tool_result' = verify_id(o).value
    /\ raised' = verify_id(o).exc
    /\ UNCHANGED <<environ, dotenv, agent, clients, requests, application, app_payload,
                   user_instructions, response, report, init_args>>

NextTools ==
    \/ \E o \in ToolInputs : InvokeVerifyPaystub(o)
    \/ \E o \in ToolInputs : InvokeVerifyId(o)

SpecTools == InitTools /\ [][NextTools]_vars

-----------------------------------------------------------------------------
(* Properties of the response post-processing (SpecReport) *)

\* the text of a response's content, None read as ""
TextOf(c) == IF c.t = "str" THEN c.v ELSE <<>>

HasAllLabels(text) == \A i \in 1..Len(SectionLabels) : IsSubstring(SectionLabels[i], text)

\* t is s without its leading and trailing whitespace
IsTrimOf(t, s) ==
    \E i \in 1..(Len(s) + 1) : \E j \in (i - 1)..Len(s) :
        /\ t = SubSeq(s, i, j)
        /\ \A k \in 1..(i - 1) : s[k] \in PyWhitespace
        /\ \A k \in (j + 1)..Len(s) : s[k] \in PyWhitespace
        /\ t # <<>> => (t[1] \notin PyWhitespace /\ t[Len(t)] \notin PyWhitespace)

\* the report is the three-section wrapper with t under the first label
IsWrapperAround(r, t) ==
    r = Concat(<< IDENTITY_FRAUD_RISK, <<":", "\n">>, t, <<"\n", "\n">>,
                  PAYSTUB_FRAUD_RISK, <<":", "\n">>, SEE_ANALYSIS_ABOVE, <<"\n", "\n">>,
                  OVERALL_APPLICATION_RISK, <<":", "\n">>, SEE_ANALYSIS_ABOVE, <<"\n">> >>)

\* C1: every report returned, whatever the response content (None, empty, or
\* holding only one or two of the labels), contains all three section labels.
C1_EveryReportHasAllLabels ==
    op = "report" => HasAllLabels(report.v)

\* C2, as claimed: when no label occurs in the response text, the report has
\* all three labels and holds the original response text verbatim.
C2_OriginalTextVerbatim ==
    (op = "report" /\ response.content.t = "str" /\ ~HasAnyLabel(response.content.v))
        => /\ HasAllLabels(report.v)
           /\ IsSubstring(response.content.v, report.v)

\* C2, amended: when no label occurs in the response text, the report is the
\* three-section wrapper whose 'Identity Fraud Risk' section holds the response
\* text with its surrounding whitespace trimmed (None read as empty).
C2_TrimmedTextWrapped ==
    (op = "report" /\ ~HasAnyLabel(TextOf(response.content)))
        => /\ HasAllLabels(report.v)
           /\ LET text == TextOf(response.content)
              IN  \E i \in 1..(Len(text) + 1) : \E j \in (i - 1)..Len(text) :
                    /\ IsTrimOf(SubSeq(text, i, j), text)
                    /\ IsWrapperAround(report.v, SubSeq(text, i, j))
                    /\ IsSubstring(SubSeq(text, i, j), report.v)

\* C2 witness: a label-free response with text between whitespace was wrapped.
C2_Witness ==
    /\ op = "report"
    /\ response.content.t = "str"
    /\ ~HasAnyLabel(response.content.v)
    /\ IsSubstring(<<" ", "o", "k", "\n">>, response.content.v)
    /\ ~IsSubstring(response.content.v, report.v)

-----------------------------------------------------------------------------
(* Properties of the payload builder (SpecBuild) *)

\* d[k] for a dict value d holding key k
DictGet(d, k) == d.v[CHOOSE i \in 1..Len(d.v) : d.v[i].key = k].val
DictHas(d, k) == \E i \in 1..Len(d.v) : d.v[i].key = k

RECURSIVE Coerced(_)
\* o with every value json cannot serialize replaced by its str(), and
\* sequences read as JSON arrays
Coerced(o) ==
    CASE o.t = "object" -> PyStr(o.v)
      [] o.t \in {"list", "tuple"} -> PyList([i \in 1..Len(o.v) |-> Coerced(o.v[i])])
      [] o.t = "dict" ->
            PyDict([i \in 1..Len(o.v) |-> Item(o.v[i].key, Coerced(o.v[i].val))])
      [] OTHER -> o

RECURSIVE StringKeyed(_)
\* every key of every dict in o is a str
StringKeyed(o) ==
    CASE o.t \in {"list", "tuple"} -> \A i \in 1..Len(o.v) : StringKeyed(o.v[i])
      [] o.t = "dict" ->
            \A i \in 1..Len(o.v) : o.v[i].key.t = "str" /\ StringKeyed(o.v[i].val)
      [] OTHER -> TRUE

\* C4: for a str that does not parse as JSON, no error is raised and the payload
\* parses as a JSON object whose raw_application field is the original str.
C4_MalformedStringWrapped ==
    (op = "build" /\ application.t = "str" /\ ~JsonLoads(application.v).ok)
        => /\ raised = NoError
           /\ app_payload.t = "str"
           /\ JsonLoads(app_payload.v).ok
           /\ JsonLoads(app_payload.v).val.t = "dict"
           /\ DictHas(JsonLoads(app_payload.v).val, PyStr(RAW_APPLICATION))
           /\ DictGet(JsonLoads(app_payload.v).val, PyStr(RAW_APPLICATION)) = application

\* C4 witness: a malformed str holding a quote and a backslash was wrapped.
C4_Witness ==
    /\ op = "build"
    /\ application.t = "str"
    /\ ~JsonLoads(application.v).ok
    /\ IsSubstring(<<"\"", "\\">>, application.v)
    /\ app_payload.t = "str"

\* C5: for a str that parses as JSON, the payload is that str character for
\* character, and the user message is the fixed head ending in "DATA: "
\* followed by it.
C5_ValidJsonPassedThrough ==
    (op = "build" /\ application.t = "str" /\ JsonLoads(application.v).ok)
        => /\ raised = NoError
           /\ app_payload = application
           /\ user_instructions.t = "str"
           /\ SubSeq(user_instructions.v, Len(user_instructions.v) - Len(application.v) - 5,
                     Len(user_instructions.v))
                = <<"D", "A", "T", "A", ":", " ">> \o application.v

\* C5 witness: a valid JSON str that json.dumps would write differently
\* (an object without the space after the colon) was passed through.
C5_Witness ==
    /\ op = "build"
    /\ application.t = "str"
    /\ JsonLoads(application.v).ok
    /\ JsonLoads(application.v).val.t = "dict"
    /\ JsonDumps(JsonLoads(application.v).val).out # application.v
    /\ app_payload = application

-----------------------------------------------------------------------------
(* Properties of the agent (Spec) *)

\* the request a generate_report step has just issued
Issued(before, after) == after[Len(after)]

\* the key is absent or empty
NoCredential(x) == x = NoValue \/ x = PyStr(<<>>)

\* C7, as claimed: a construction with GEMINI_API_KEY absent or empty in the
\* process environment raises the configuration error, creates no client,
\* issues no request and yields no agent.
C7_FailsWithoutEnvironmentKey ==
    [][(op' = "__init__" /\ NoCredential(environ))
        => /\ raised' = "RuntimeError"
           /\ agent' = agent
           /\ clients' = clients
           /\ requests' = requests]_vars

\* C7, amended: a construction that finds GEMINI_API_KEY absent or empty once
\* the .env file has been loaded (set neither in the process environment nor
\* by the .env file) raises the configuration error, creates no client, issues
\* no request and yields no agent; so every agent, and every request
\* generate_report issues, holds a non-empty key.
C7_FailsWithoutLoadedKey ==
    [][/\ (op' = "__init__" /\ NoCredential(environ'))
            => /\ raised' = "RuntimeError"
               /\ agent' = agent
               /\ clients' = clients
               /\ requests' = requests
       /\ op' = "generate_report"
            => /\ agent # NoAgent
               /\ agent[1].client.api_key # <<>>
               /\ requests' # requests => Issued(requests, requests').api_key # <<>>]_vars

\* C7 witness: a construction failed on an empty key, with no agent and no
\* client made.
C7_Witness ==
    /\ op = "__init__"
    /\ raised = "RuntimeError"
    /\ environ = PyStr(<<>>)
    /\ agent = NoAgent
    /\ clients = 0
    /\ requests = <<>>

\* C8, as claimed: every generate_report call issues exactly one request,
\* after the payload is built; a failed request reaches the caller unmodified,
\* with no second request and no report.
C8_EveryCallIssuesOneRequest ==
    [][op' = "generate_report"
        => /\ Len(requests') = Len(requests) + 1
           /\ app_payload'.t = "str"
           /\ Issued(requests, requests').messages[2].content
                = DATA_PREFIX \o app_payload'.v
           /\ response'.kind = "error"
                => (raised' = response'.err /\ report' = NoValue)]_vars

\* C8, amended: every generate_report call whose payload gets built (any str,
\* or a mapping json.dumps accepts) issues exactly one request, after the
\* payload is built; a failed request reaches the caller unmodified, with no
\* second request and no report.  A call whose payload cannot be built raises
\* before any request is issued.
C8_BuiltPayloadIssuesOneRequest ==
    [][op' = "generate_report"
        => /\ BuildPayload(application').ok
                => /\ Len(requests') = Len(requests) + 1
                   /\ SubSeq(requests', 1, Len(requests)) = requests
                   /\ app_payload'.t = "str"
                   /\ Issued(requests, requests').messages[2].content
                        = DATA_PREFIX \o app_payload'.v
                   /\ response'.kind = "error"
                        => (raised' = response'.err /\ report' = NoValue)
           /\ ~BuildPayload(application').ok
                => (requests' = requests /\ raised' # NoError /\ report' = NoValue)]_vars

\* C8 witness: a call issued its request, the request failed, and the caller
\* got the failure and no report.
C8_Witness ==
    /\ op = "generate_report"
    /\ response = Failure("RateLimitError")
    /\ raised = "RateLimitError"
    /\ report = NoValue
    /\ Len(requests) = 1

\* C10: a generate_report call, returning or raising, leaves the agent's
\* model, temperature and client as construction set them, and the request it
\* issues carries that model, that temperature and that client's key.
C10_CallsLeaveAgentUnchanged ==
    [][/\ (op' = "__init__" /\ raised' = NoError)
            => /\ agent'[1].model = init_args'.model
               /\ agent'[1].temperature = init_args'.temperature
       /\ op' = "generate_report"
            => /\ agent' = agent
               /\ clients' = clients
               /\ agent[1].model = init_args.model
               /\ agent[1].temperature = init_args.temperature
               /\ requests' # requests
                    => /\ Issued(requests, requests').model = init_args.model
                       /\ Issued(requests, requests').temperature = init_args.temperature
                       /\ Issued(requests, requests').api_key = agent[1].client.api_key]_vars

\* C10 witness: an agent built with non-default arguments made a failing call
\* and then a returning one, both requests carrying its model.
C10_Witness ==
    /\ op = "generate_report"
    /\ agent # NoAgent
    /\ init_args.model = "gemini-1.5-pro"
    /\ Len(requests) = 2
    /\ requests[1].model = "gemini-1.5-pro"
    /\ requests[2].temperature = 7
    /\ raised = NoError
    /\ report # NoValue

-----------------------------------------------------------------------------
(* Properties of the tool server (SpecTools) *)

\* C9: whatever object they are given, verify_paystub and verify_id return a
\* response with a status field and no error field, and raise nothing.
C9_ToolsAlwaysReportSuccess ==
    op \in {"verify_paystub", "verify_id"}
        => /\ raised = NoError
           /\ tool_result.t = "dict"
           /\ DictHas(tool_result, STATUS)
           /\ ~DictHas(tool_result, ERROR)
           /\ op = "verify_paystub" => DictGet(tool_result, STATUS) = PAYSTUB_VERIFIED
           /\ op = "verify_id" => DictGet(tool_result, STATUS) = ID_VERIFIED

\* C9 witness: verify_id was invoked with something that is no identity record
\* and answered with a status.
C9_Witness ==
    /\ op = "verify_id"
    /\ tool_input = NoValue
    /\ DictHas(tool_result, STATUS)

====
